---- MODULE Spec2Model ----
(***************************************************************************)
(* compact-git-status: one run of main (probe, collect, parse, render).    *)
(*                                                                         *)
(* Strings are sequences of characters; a character is a one-character     *)
(* TLA+ string, and a non-ASCII glyph of the default symbol table is the   *)
(* name of its code point ("U+2714").  Nothing in the program slices a     *)
(* glyph, so one unit per glyph loses nothing.                             *)
(***************************************************************************)
EXTENDS Integers, Sequences, FiniteSets, TLC

(***************************************************************************)
(* Bounds of the model.                                                    *)
(***************************************************************************)
\* Longest raw report, in records, that the parser specification enumerates.
MaxRecords == 3
\* Largest count the renderer specification enumerates (two decimal digits).
MaxCount == 12

(***************************************************************************)
(* Program constants.                                                      *)
(***************************************************************************)
\* e.ExitCode() == 128: "not a git repository"
NotARepo == 128
\* status.Commit[:7]
ShortHash == 7
\* log.Fatal ends the process with os.Exit(1)
ExitFatal == 1
\* an unrecovered run-time panic (index out of range) ends the process with 2
ExitPanic == 2

RebaseApply == <<"R", "E", "B", "A", "S", "E">>
RebaseMerge == <<"R", "E", "B", "A", "S", "E", "-", "m">>
RebaseInteractive == <<"R", "E", "B", "A", "S", "E", "-", "i">>
Am == <<"A", "M">>
AmRebase == <<"A", "M", "/", "R", "E", "B", "A", "S", "E">>
Merging == <<"M", "E", "R", "G", "I", "N", "G">>
CherryPick == <<"C", "H", "E", "R", "R", "Y", "-", "P", "I", "C", "K", "I", "N", "G">>
Reverting == <<"R", "E", "V", "E", "R", "T", "I", "N", "G">>
Bisecting == <<"B", "I", "S", "E", "C", "T", "I", "N", "G">>

\* The literal "(detached)" that buildOutput compares status.Branch with.
Detached == <<"(", "d", "e", "t", "a", "c", "h", "e", "d", ")">>

\* The sub-keys of a header record that parseStatus switches on.
KeyOid == <<"b", "r", "a", "n", "c", "h", ".", "o", "i", "d">>
KeyHead == <<"b", "r", "a", "n", "c", "h", ".", "h", "e", "a", "d">>
KeyStash == <<"s", "t", "a", "s", "h">>
KeyUpstream == <<"b", "r", "a", "n", "c", "h", ".", "u", "p", "s", "t", "r", "e", "a", "m">>
KeyAb == <<"b", "r", "a", "n", "c", "h", ".", "a", "b">>

\* []string{"DD", "AU", "UD", "UA", "DU", "AA", "UU"}
ConflictCodes ==
    { <<"D", "D">>, <<"A", "U">>, <<"U", "D">>, <<"U", "A">>,
      <<"D", "U">>, <<"A", "A">>, <<"U", "U">> }

\* The flag defaults of main.
DefaultSymbols ==
    [ Prefix    |-> <<"[">>,
      Suffix    |-> <<"]">>,
      Sep       |-> <<"|">>,
      Local     |-> <<"L">>,
      Modified  |-> <<"U+271A", " ">>,
      Staged    |-> <<"U+25CF", " ">>,
      Conflict  |-> <<"U+2716", " ">>,
      Untracked |-> <<"U+2026">>,
      Stashed   |-> <<"U+2691", " ">>,
      Ahead     |-> <<"U+2191", "U+00B7">>,
      Behind    |-> <<"U+2193", "U+00B7">>,
      Clean     |-> <<"U+2714">> ]

(***************************************************************************)
(* The library functions the program calls, by what they do.               *)
(***************************************************************************)
Digits == <<"0", "1", "2", "3", "4", "5", "6", "7", "8", "9">>

DigitChars == { Digits[k] : k \in 1..10 }

DigitVal(c) == (CHOOSE k \in 1..10 : Digits[k] = c) - 1

RECURSIVE DigitsVal(_)
\* The value of a non-empty string of decimal digits.
DigitsVal(s) ==
    IF Len(s) = 0 THEN 0
    ELSE 10 * DigitsVal(SubSeq(s, 1, Len(s) - 1)) + DigitVal(s[Len(s)])

\* strconv.Atoi: an optional sign, then one or more decimal digits; anything
\* else is a syntax error.  (The strings of the model are far shorter than
\* the 19 digits at which Atoi reports a range error.)
Atoi(s) ==
    LET signed == Len(s) > 0 /\ s[1] \in {"+", "-"}
        body   == IF signed THEN Tail(s) ELSE s
        ok     == Len(body) > 0 /\ \A k \in 1..Len(body) : body[k] \in DigitChars
    IN  IF ~ok THEN [ok |-> FALSE, val |-> 0]
        ELSE [ok |-> TRUE,
              val |-> IF signed /\ s[1] = "-" THEN 0 - DigitsVal(body)
                      ELSE DigitsVal(body)]

RECURSIVE NatString(_)
NatString(n) ==
    IF n < 10 THEN <<Digits[n + 1]>>
    ELSE NatString(n \div 10) \o <<Digits[(n % 10) + 1]>>

\* fmt's %d verb.
FormatInt(n) == IF n < 0 THEN <<"-">> \o NatString(0 - n) ELSE NatString(n)

WhiteSpace == {" ", "\n", "\t", "\r"}

RECURSIVE TrimLeft(_)
TrimLeft(s) == IF Len(s) > 0 /\ s[1] \in WhiteSpace THEN TrimLeft(Tail(s)) ELSE s

RECURSIVE TrimRight(_)
TrimRight(s) ==
    IF Len(s) > 0 /\ s[Len(s)] \in WhiteSpace
    THEN TrimRight(SubSeq(s, 1, Len(s) - 1))
    ELSE s

\* strings.TrimSpace
TrimSpace(s) == TrimRight(TrimLeft(s))

RECURSIVE Split(_, _)
\* strings.Split(s, sep) for a one-character separator: always at least one
\* element, and an empty last element when s ends with the separator.
Split(s, sep) ==
    IF \E k \in 1..Len(s) : s[k] = sep
    THEN LET k == CHOOSE j \in 1..Len(s) :
                      s[j] = sep /\ \A h \in 1..(j - 1) : s[h] # sep
         IN  <<SubSeq(s, 1, k - 1)>> \o Split(SubSeq(s, k + 1, Len(s)), sep)
    ELSE <<s>>

(***************************************************************************)
(* State.  The first six variables are the world the run meets: what the   *)
(* two git commands and the file system answer, and the flags.  They never *)
(* change.  The others are the program's own.                              *)
(***************************************************************************)
VARIABLES
    toplevel,   \* `git rev-parse --show-toplevel`: [exited, code]
    chdirOk,    \* whether os.Chdir succeeds
    fs,         \* the marker paths under .git: path -> [exists, data]
    statusOk,   \* whether `git status` exits with 0
    output,     \* what `git status --porcelain=2 --branch --show-stash` prints
    symbols,    \* flags.Symbols
    pc,         \* where main is
    state,      \* gitState's *State: <<>> is nil, <<s>> points to s
    status,     \* parseStatus's *Status (the struct it fills)
    i,          \* parseStatus's loop: index of the next record
    stdout,     \* what has been written to standard output
    exitCode,   \* the process's exit status, once pc = "done"
    trace       \* the commands run and file-system calls made, in order

world == <<toplevel, chdirOk, fs, statusOk, output, symbols>>

vars == <<toplevel, chdirOk, fs, statusOk, output, symbols,
          pc, state, status, i, stdout, exitCode, trace>>

\* &Status{}
ZeroStatus ==
    [ Commit |-> <<>>, Branch |-> <<>>, Upstream |-> <<>>,
      Ahead |-> 0, Behind |-> 0, Staged |-> 0, Conflict |-> 0,
      Modified |-> 0, Untracked |-> 0, Stashed |-> 0 ]

(***************************************************************************)
(* Repository State Probe: gitState.                                       *)
(***************************************************************************)
RebaseMergeDir == ".git/rebase-merge"
RebaseMergeMsgnum == ".git/rebase-merge/msgnum"
RebaseMergeEnd == ".git/rebase-merge/end"
RebaseMergeInteractive == ".git/rebase-merge/interactive"
RebaseApplyDir == ".git/rebase-apply"
RebaseApplyNext == ".git/rebase-apply/next"
RebaseApplyLast == ".git/rebase-apply/last"
RebaseApplyRebasing == ".git/rebase-apply/rebasing"
RebaseApplyApplying == ".git/rebase-apply/applying"
MergeHead == ".git/MERGE_HEAD"
CherryPickHead == ".git/CHERRY_PICK_HEAD"
RevertHead == ".git/REVERT_HEAD"
BisectLog == ".git/BISECT_LOG"

Paths ==
    { RebaseMergeDir, RebaseMergeMsgnum, RebaseMergeEnd, RebaseMergeInteractive,
      RebaseApplyDir, RebaseApplyNext, RebaseApplyLast, RebaseApplyRebasing,
      RebaseApplyApplying, MergeHead, CherryPickHead, RevertHead, BisectLog }

\* any exit status of the top-level query taken for "not a repository"
topLevelResult_AnyExitIsNil ==
    IF toplevel.exited /\ toplevel.code = 0 THEN "ok"
    ELSE IF toplevel.exited THEN "nil"
    ELSE "err"

\* a missing or unparsable file read as 0
readInt_ErrorIsZero(path) ==
    IF ~fs[path].exists THEN [ok |-> TRUE, val |-> 0]
    ELSE [ok |-> TRUE, val |-> Atoi(TrimSpace(fs[path].data)).val]

\* What gitState makes of the top-level query's error: "ok" (err == nil),
\* "nil" (an ExitError with code 128: return nil, nil) or "err".
topLevelResult ==
    IF toplevel.exited /\ toplevel.code = 0 THEN "ok"
    ELSE IF toplevel.exited /\ toplevel.code = NotARepo THEN "nil"
    ELSE "err"

pathExists(path) == fs[path].exists

readInt(path) ==
    IF ~fs[path].exists THEN [ok |-> FALSE, val |-> 0]
    ELSE Atoi(TrimSpace(fs[path].data))

Stat(path) == <<"stat", path>>

Read(path) == <<"read", path>>

ProbeErr(io) ==
    [err |-> TRUE, state |-> [Step |-> 0, Total |-> 0, State |-> <<>>], io |-> io]

ProbeOk(step, total, label, io) ==
    [err |-> FALSE, state |-> [Step |-> step, Total |-> total, State |-> label],
     io |-> io]

\* the sub-markers of rebase-apply tested in the other order
rebaseApplyLabel_ApplyingFirst ==
    IF fs[RebaseApplyApplying].exists THEN Am
    ELSE IF fs[RebaseApplyRebasing].exists THEN RebaseApply
    ELSE AmRebase

\* The label of a rebase-merge directory.
rebaseMergeLabel ==
    IF pathExists(RebaseMergeInteractive) THEN RebaseInteractive ELSE RebaseMerge

\* The label of a rebase-apply directory.
rebaseApplyLabel ==
    IF pathExists(RebaseApplyRebasing) THEN RebaseApply
    ELSE IF pathExists(RebaseApplyApplying) THEN Am
    ELSE AmRebase

\* The switch of gitState: the state it builds (or the error it returns) and
\* the file-system calls it makes on the way, in order.
gitStateMarkers ==
    IF pathExists(RebaseMergeDir) THEN
        LET step  == readInt(RebaseMergeMsgnum)
            total == readInt(RebaseMergeEnd)
            io1   == <<Stat(RebaseMergeDir), Read(RebaseMergeMsgnum)>>
            io2   == io1 \o <<Read(RebaseMergeEnd)>>
            io3   == io2 \o <<Stat(RebaseMergeInteractive)>>
        IN  IF ~step.ok THEN ProbeErr(io1)
            ELSE IF ~total.ok THEN ProbeErr(io2)
            ELSE ProbeOk(step.val, total.val, rebaseMergeLabel, io3)
    ELSE IF pathExists(RebaseApplyDir) THEN
        LET step  == readInt(RebaseApplyNext)
            total == readInt(RebaseApplyLast)
            io0   == <<Stat(RebaseMergeDir), Stat(RebaseApplyDir)>>
            io1   == io0 \o <<Read(RebaseApplyNext)>>
            io2   == io1 \o <<Read(RebaseApplyLast)>>
            io3   == io2 \o <<Stat(RebaseApplyRebasing)>>
            io4   == io3 \o <<Stat(RebaseApplyApplying)>>
        IN  IF ~step.ok THEN ProbeErr(io1)
            ELSE IF ~total.ok THEN ProbeErr(io2)
            ELSE ProbeOk(step.val, total.val, rebaseApplyLabel,
                         IF pathExists(RebaseApplyRebasing) THEN io3 ELSE io4)
    ELSE LET io0 == <<Stat(RebaseMergeDir), Stat(RebaseApplyDir)>>
             io1 == io0 \o <<Stat(MergeHead)>>
             io2 == io1 \o <<Stat(CherryPickHead)>>
             io3 == io2 \o <<Stat(RevertHead)>>
             io4 == io3 \o <<Stat(BisectLog)>>
         IN  IF pathExists(MergeHead) THEN ProbeOk(0, 0, Merging, io1)
             ELSE IF pathExists(CherryPickHead) THEN ProbeOk(0, 0, CherryPick, io2)
             ELSE IF pathExists(RevertHead) THEN ProbeOk(0, 0, Reverting, io3)
             ELSE IF pathExists(BisectLog) THEN ProbeOk(0, 0, Bisecting, io4)
             ELSE ProbeOk(0, 0, <<>>, io4)

(***************************************************************************)
(* Status Parser: parseStatus, one record at a time.                       *)
(***************************************************************************)
ParseOk(st) == [kind |-> "ok", status |-> st]

\* return nil, fmt.Errorf(...)
ParseErr(st) == [kind |-> "err", status |-> st]

\* An index or slice bound out of range: the run-time panics.
ParsePanic(st) == [kind |-> "panic", status |-> st]

\* "UU" left out of the conflict codes
entryClass_WithoutUU(code) ==
    IF code \in ConflictCodes \ { <<"U", "U">> } THEN "conflict"
    ELSE IF Len(code) < 2 THEN "panic"
    ELSE IF code[2] = "M" THEN "modified"
    ELSE "staged"

\* How a changed-entry record with status code `code` is counted.
entryClass(code) ==
    IF code \in ConflictCodes THEN "conflict"
    ELSE IF Len(code) < 2 THEN "panic"
    ELSE IF code[2] = "M" THEN "modified"
    ELSE "staged"

\* case "#": the header record with fields s.
parseHeader(st, s) ==
    IF Len(s) < 2 THEN ParsePanic(st)
    ELSE IF s[2] = KeyOid THEN
        IF Len(s) < 3 THEN ParsePanic(st)
        ELSE ParseOk([st EXCEPT !.Commit = s[3]])
    ELSE IF s[2] = KeyHead THEN
        IF Len(s) < 3 THEN ParsePanic(st)
        ELSE ParseOk([st EXCEPT !.Branch = s[3]])
    ELSE IF s[2] = KeyStash THEN
        IF Len(s) < 3 THEN ParsePanic(st)
        ELSE LET numStashed == Atoi(s[3])
             IN  IF ~numStashed.ok THEN ParseErr(st)
                 ELSE ParseOk([st EXCEPT !.Stashed = numStashed.val])
    ELSE IF s[2] = KeyUpstream THEN
        IF Len(s) < 3 THEN ParsePanic(st)
        ELSE ParseOk([st EXCEPT !.Upstream = s[3]])
    ELSE IF s[2] = KeyAb THEN
        IF Len(s) < 3 \/ Len(s[3]) < 1 THEN ParsePanic(st)
        ELSE LET ahead == Atoi(Tail(s[3]))
                 st1   == [st EXCEPT !.Ahead = ahead.val]
             IN  IF ~ahead.ok THEN ParseErr(st)
                 ELSE IF Len(s) < 4 \/ Len(s[4]) < 1 THEN ParsePanic(st1)
                 ELSE LET behind == Atoi(Tail(s[4]))
                      IN  IF ~behind.ok THEN ParseErr(st1)
                          ELSE ParseOk([st1 EXCEPT !.Behind = behind.val])
    ELSE ParseOk(st)

\* The body of parseStatus's loop for one line of the report.
parseLine(st, line) ==
    LET s == Split(line, " ")
    IN  IF s[1] = <<"#">> THEN parseHeader(st, s)
        ELSE IF s[1] \in {<<"1">>, <<"2">>} THEN
            IF Len(s) < 2 THEN ParsePanic(st)
            ELSE LET class == entryClass(s[2])
                 IN  IF class = "panic" THEN ParsePanic(st)
                     ELSE IF class = "conflict"
                          THEN ParseOk([st EXCEPT !.Conflict = @ + 1])
                     ELSE IF class = "modified"
                          THEN ParseOk([st EXCEPT !.Modified = @ + 1])
                     ELSE ParseOk([st EXCEPT !.Staged = @ + 1])
        ELSE IF s[1] = <<"?">> THEN ParseOk([st EXCEPT !.Untracked = @ + 1])
        ELSE ParseOk(st)

\* strings.Split(output, "\n")
Records == Split(output, "\n")

(***************************************************************************)
(* Output Renderer: buildOutput.                                           *)
(***************************************************************************)
\* status.Commit[:7] panics on a commit id shorter than 7 bytes.
buildOutputPanics(st) == st.Branch = Detached /\ Len(st.Commit) < ShortHash

\* "%s%d"
Group(symbol, n) == symbol \o FormatInt(n)

\* the upstream and ahead/behind part emitted in the detached state too
branchSection_UpstreamAlways(st, sym) ==
    (IF st.Branch = Detached THEN <<":">> \o SubSeq(st.Commit, 1, ShortHash)
     ELSE st.Branch)
    \o (IF st.Upstream = <<>> THEN <<" ">> \o sym.Local
        ELSE <<" ", "{">> \o st.Upstream \o <<"}">>)
    \o (IF st.Ahead > 0 \/ st.Behind > 0
        THEN <<" ">>
             \o (IF st.Ahead > 0 THEN Group(sym.Ahead, st.Ahead) ELSE <<>>)
             \o (IF st.Behind > 0 THEN Group(sym.Behind, st.Behind) ELSE <<>>)
        ELSE <<>>)

branchSection(st, sym) ==
    IF st.Branch = Detached THEN <<":">> \o SubSeq(st.Commit, 1, ShortHash)
    ELSE st.Branch
         \o (IF st.Upstream = <<>> THEN <<" ">> \o sym.Local
             ELSE <<" ", "{">> \o st.Upstream \o <<"}">>)
         \o (IF st.Ahead > 0 \/ st.Behind > 0
             THEN <<" ">>
                  \o (IF st.Ahead > 0 THEN Group(sym.Ahead, st.Ahead) ELSE <<>>)
                  \o (IF st.Behind > 0 THEN Group(sym.Behind, st.Behind) ELSE <<>>)
             ELSE <<>>)

\* the step/total pair shown for a total of 0 too
stateSection_TotalNotNegative(s, sym) ==
    IF s.State # <<>>
    THEN s.State
         \o (IF s.Total >= 0
             THEN <<" ">> \o FormatInt(s.Step) \o <<"/">> \o FormatInt(s.Total)
             ELSE <<>>)
         \o sym.Sep
    ELSE <<>>

stateSection(s, sym) ==
    IF s.State # <<>>
    THEN s.State
         \o (IF s.Total > 0
             THEN <<" ">> \o FormatInt(s.Step) \o <<"/">> \o FormatInt(s.Total)
             ELSE <<>>)
         \o sym.Sep
    ELSE <<>>

\* the clean symbol never emitted
categorySection_WithoutClean(st, sym) ==
    (IF st.Staged > 0 THEN Group(sym.Staged, st.Staged) ELSE <<>>)
    \o (IF st.Conflict > 0 THEN Group(sym.Conflict, st.Conflict) ELSE <<>>)
    \o (IF st.Modified > 0 THEN Group(sym.Modified, st.Modified) ELSE <<>>)
    \o (IF st.Untracked > 0 THEN Group(sym.Untracked, st.Untracked) ELSE <<>>)
    \o (IF st.Stashed > 0 THEN Group(sym.Stashed, st.Stashed) ELSE <<>>)

categorySection(st, sym) ==
    (IF st.Staged > 0 THEN Group(sym.Staged, st.Staged) ELSE <<>>)
    \o (IF st.Conflict > 0 THEN Group(sym.Conflict, st.Conflict) ELSE <<>>)
    \o (IF st.Modified > 0 THEN Group(sym.Modified, st.Modified) ELSE <<>>)
    \o (IF st.Untracked > 0 THEN Group(sym.Untracked, st.Untracked) ELSE <<>>)
    \o (IF st.Stashed > 0 THEN Group(sym.Stashed, st.Stashed) ELSE <<>>)
    \o (IF st.Staged = 0 /\ st.Conflict = 0 /\ st.Modified = 0
           /\ st.Untracked = 0 /\ st.Stashed = 0
        THEN sym.Clean ELSE <<>>)

buildOutput(st, s, sym) ==
    sym.Prefix \o branchSection(st, sym) \o sym.Sep \o stateSection(s, sym)
    \o categorySection(st, sym) \o sym.Suffix

\* fmt.Print(...): what main writes for the string str.
printed(str) == str

(***************************************************************************)
(* main, step by step.                                                     *)
(***************************************************************************)
\* log.Fatal(err): the message goes to standard error, the process exits 1.
Fatal == pc' = "done" /\ exitCode' = ExitFatal

Panic == pc' = "done" /\ exitCode' = ExitPanic

\* gitState: exec.Command("git", "-C", path, "rev-parse", "--show-toplevel")
TopLevelQuery ==
    /\ pc = "gitState"
    /\ trace' = Append(trace, <<"git", "rev-parse">>)
    /\ IF topLevelResult = "ok" THEN pc' = "chdir" /\ exitCode' = exitCode
       ELSE IF topLevelResult = "nil" THEN pc' = "done" /\ exitCode' = 0
       ELSE Fatal
    /\ UNCHANGED <<world, state, status, i, stdout>>

\* gitState: os.Chdir(strings.TrimSpace(string(stdout)))
Chdir ==
    /\ pc = "chdir"
    /\ trace' = Append(trace, <<"chdir", "toplevel">>)
    /\ IF chdirOk THEN pc' = "markers" /\ exitCode' = exitCode ELSE Fatal
    /\ UNCHANGED <<world, state, status, i, stdout>>

\* gitState: the switch over the marker paths, and main's check of the result.
ClassifyMarkers ==
    /\ pc = "markers"
    /\ LET r == gitStateMarkers
       IN  /\ trace' = trace \o r.io
           /\ IF r.err THEN Fatal /\ state' = state
              ELSE pc' = "gitStatus" /\ state' = <<r.state>> /\ exitCode' = exitCode
    /\ UNCHANGED <<world, status, i, stdout>>

\* gitStatus
GitStatus ==
    /\ pc = "gitStatus"
    /\ trace' = Append(trace, <<"git", "status">>)
    /\ IF statusOk THEN pc' = "parseStatus" /\ exitCode' = exitCode ELSE Fatal
    /\ UNCHANGED <<world, state, status, i, stdout>>

\* parseStatus: one turn of the loop over the records.
ParseRecord ==
    /\ pc = "parseStatus"
    /\ i <= Len(Records)
    /\ LET r == parseLine(status, Records[i])
       IN  /\ status' = r.status
           /\ IF r.kind = "ok" THEN pc' = pc /\ i' = i + 1 /\ exitCode' = exitCode
              ELSE IF r.kind = "err" THEN Fatal /\ i' = i
              ELSE Panic /\ i' = i
    /\ UNCHANGED <<world, state, stdout, trace>>

\* parseStatus: return status, nil
ParseReturn ==
    /\ pc = "parseStatus"
    /\ i > Len(Records)
    /\ pc' = "buildOutput"
    /\ UNCHANGED <<world, state, status, i, stdout, exitCode, trace>>

\* fmt.Print(buildOutput(*status, *state, flags.Symbols)), then main returns.
PrintOutput ==
    /\ pc = "buildOutput"
    /\ IF buildOutputPanics(status) THEN Panic /\ stdout' = stdout
       ELSE /\ stdout' = stdout \o printed(buildOutput(status, state[1], symbols))
            /\ pc' = "done"
            /\ exitCode' = 0
    /\ UNCHANGED <<world, state, status, i, trace>>

(***************************************************************************)
(* The worlds a run is checked in.                                         *)
(***************************************************************************)
\* The top-level query: exits (with a code) or cannot be started at all.
TopLevelOutcomes ==
    { [exited |-> TRUE, code |-> c] : c \in {0, 1, NotARepo, NotARepo + 1} }
    \cup { [exited |-> FALSE, code |-> 0] }

TopLevelOk == [exited |-> TRUE, code |-> 0]

NoFile == [exists |-> FALSE, data |-> <<>>]

File(data) == [exists |-> TRUE, data |-> data]

\* Contents of a step file (msgnum, next) and of a total file (end, last).
StepFiles == { NoFile, File(<<"x">>), File(<<"2", "\n">>) }

TotalFiles == { NoFile, File(<<"5", " ", "x">>), File(<<"0", "\n">>), File(<<"5", "\n">>) }

NoRebaseMerge ==
    [present |-> FALSE, msgnum |-> NoFile, end |-> NoFile, interactive |-> FALSE]

RebaseMergeDirs ==
    { NoRebaseMerge }
    \cup { [present |-> TRUE, msgnum |-> a, end |-> b, interactive |-> c] :
             a \in StepFiles, b \in TotalFiles, c \in BOOLEAN }

NoRebaseApply ==
    [present |-> FALSE, next |-> NoFile, last |-> NoFile,
     rebasing |-> FALSE, applying |-> FALSE]

RebaseApplyDirs ==
    { NoRebaseApply }
    \cup { [present |-> TRUE, next |-> a, last |-> b, rebasing |-> c, applying |-> d] :
             a \in StepFiles, b \in TotalFiles, c \in BOOLEAN, d \in BOOLEAN }

HeadPaths == { MergeHead, CherryPickHead, RevertHead, BisectLog }

Present(b) == IF b THEN File(<<>>) ELSE NoFile

\* The file system with rebase-merge directory rm, rebase-apply directory ra
\* and the marker files heads.  A file exists only inside an existing directory.
MkFS(rm, ra, heads) ==
    [ p \in Paths |->
        IF p = RebaseMergeDir THEN Present(rm.present)
        ELSE IF p = RebaseMergeMsgnum THEN rm.msgnum
        ELSE IF p = RebaseMergeEnd THEN rm.end
        ELSE IF p = RebaseMergeInteractive THEN Present(rm.interactive)
        ELSE IF p = RebaseApplyDir THEN Present(ra.present)
        ELSE IF p = RebaseApplyNext THEN ra.next
        ELSE IF p = RebaseApplyLast THEN ra.last
        ELSE IF p = RebaseApplyRebasing THEN Present(ra.rebasing)
        ELSE IF p = RebaseApplyApplying THEN Present(ra.applying)
        ELSE Present(p \in heads) ]

AllFS ==
    { MkFS(rm, ra, heads) :
        rm \in RebaseMergeDirs, ra \in RebaseApplyDirs, heads \in SUBSET HeadPaths }

NoOperationFS == MkFS(NoRebaseMerge, NoRebaseApply, {})

RebaseMergeAt(step, total, interactive) ==
    [present |-> TRUE, msgnum |-> step, end |-> total, interactive |-> interactive]

RebaseApplyAt(step, total, rebasing, applying) ==
    [present |-> TRUE, next |-> step, last |-> total,
     rebasing |-> rebasing, applying |-> applying]

\* The file systems of the whole-run specification: every label, a step file
\* missing, a total file that is not a number, a total of 0.
SampleFS ==
    { NoOperationFS,
      MkFS(RebaseMergeAt(File(<<"2", "\n">>), File(<<"5", "\n">>), TRUE),
           RebaseApplyAt(NoFile, NoFile, FALSE, FALSE), {MergeHead}),
      MkFS(RebaseMergeAt(File(<<"2", "\n">>), File(<<"0", "\n">>), FALSE),
           NoRebaseApply, {}),
      MkFS(RebaseMergeAt(NoFile, File(<<"5", "\n">>), FALSE), NoRebaseApply, {}),
      MkFS(RebaseMergeAt(File(<<"2", "\n">>), File(<<"-", "1", "\n">>), TRUE),
           NoRebaseApply, {}),
      MkFS(NoRebaseMerge,
           RebaseApplyAt(File(<<"2", "\n">>), File(<<"5", "\n">>), TRUE, TRUE),
           {CherryPickHead}),
      MkFS(NoRebaseMerge,
           RebaseApplyAt(File(<<"2", "\n">>), File(<<"5", "\n">>), FALSE, TRUE), {}),
      MkFS(NoRebaseMerge,
           RebaseApplyAt(File(<<"2", "\n">>), File(<<"5", "\n">>), FALSE, FALSE), {}),
      MkFS(NoRebaseMerge,
           RebaseApplyAt(File(<<"2", "\n">>), File(<<"5", " ", "x">>), TRUE, FALSE), {}),
      MkFS(NoRebaseMerge, NoRebaseApply, {MergeHead, BisectLog}),
      MkFS(NoRebaseMerge, NoRebaseApply, {CherryPickHead, RevertHead}),
      MkFS(NoRebaseMerge, NoRebaseApply, {RevertHead}),
      MkFS(NoRebaseMerge, NoRebaseApply, {BisectLog}) }

\* Values of the fields of a report.
Oid9 == <<"a", "b", "c", "1", "2", "3", "4", "d", "e">>

Oid3 == <<"a", "b", "c">>

BrMain == <<"m", "a", "i", "n">>

UpMain == <<"o", "r", "i", "g", "i", "n", "/", "m", "a", "i", "n">>

RECURSIVE Fields(_)
\* The line whose fields are ws, one space between two fields.
Fields(ws) ==
    IF Len(ws) = 1 THEN ws[1] ELSE ws[1] \o <<" ">> \o Fields(Tail(ws))

Mode == <<"1", "0", "0", "6", "4", "4">>

FileTxt == <<"f", "i", "l", "e", ".", "t", "x", "t">>

NewFileTxt == <<"n", "e", "w", "f", "i", "l", "e", ".", "t", "x", "t">>

\* Lines of a porcelain=2 report, well-formed and not.
LineOid == Fields(<< <<"#">>, KeyOid, Oid9 >>)

LineHeadMain == Fields(<< <<"#">>, KeyHead, BrMain >>)

LineHeadDetached == Fields(<< <<"#">>, KeyHead, Detached >>)

LineUpstream == Fields(<< <<"#">>, KeyUpstream, UpMain >>)

LineAb == Fields(<< <<"#">>, KeyAb, <<"+", "2">>, <<"-", "1">> >>)

LineAbSigned == Fields(<< <<"#">>, KeyAb, <<"+", "-", "2">>, <<"-", "0">> >>)

LineAbShort == Fields(<< <<"#">>, KeyAb, <<"+", "2">> >>)

LineStash == Fields(<< <<"#">>, KeyStash, <<"1", "2">> >>)

LineStashSigned == Fields(<< <<"#">>, KeyStash, <<"-", "1">> >>)

LineStashBad == Fields(<< <<"#">>, KeyStash, <<"x">> >>)

\* 1 .M N... 100644 100644 100644 abc abc file.txt
LineModified ==
    Fields(<< <<"1">>, <<".", "M">>, <<"N", ".", ".", ".">>, Mode, Mode, Mode,
              Oid3, Oid3, FileTxt >>)

LineStaged == Fields(<< <<"1">>, <<"M", ".">>, FileTxt >>)

LineRenamed == Fields(<< <<"2">>, <<"R", ".">>, NewFileTxt, FileTxt >>)

LineConflict == Fields(<< <<"1">>, <<"U", "U">>, FileTxt >>)

LineNoCode == <<"1">>

\* ? newfile.txt
LineUntracked == Fields(<< <<"?">>, NewFileTxt >>)

LineCatalog ==
    { LineOid, LineHeadMain, LineAb, LineAbSigned,
      LineStash, LineStashSigned, LineStashBad, LineModified, LineStaged,
      LineRenamed, LineConflict, LineNoCode, LineUntracked }

RECURSIVE Report(_)
\* The report made of the given lines, each ended by a newline as git ends it.
Report(ls) ==
    IF Len(ls) = 0 THEN <<>> ELSE Head(ls) \o <<"\n">> \o Report(Tail(ls))

\* The example report of the specification's section 8.
ExampleReport ==
    Report(<<LineHeadMain, LineUpstream, LineAb, LineModified, LineUntracked>>)

\* The raw reports of the whole-run specification.
SampleReports ==
    { ExampleReport,
      Report(<<LineOid, LineHeadMain>>),
      Report(<<LineOid, LineHeadDetached, LineUpstream, LineAb, LineStaged>>),
      Report(<<LineHeadDetached>>),
      Report(<<LineOid, LineHeadMain, LineUpstream, LineAbSigned>>),
      Report(<<LineOid, LineHeadMain, LineStashSigned>>),
      Report(<<LineOid, LineHeadMain, LineStashBad>>),
      Report(<<LineOid, LineHeadMain, LineNoCode>>),
      Report(<<LineOid, LineHeadMain, LineAbShort>>),
      Report(<<LineOid, LineHeadMain, LineConflict, LineRenamed, LineUntracked,
               LineStash>>) }

\* Every report of at most MaxRecords lines of the catalog.
AllReports ==
    { Report(ls) : ls \in UNION { [1..n -> LineCatalog] : n \in 0..MaxRecords } }

\* A second symbol table, as flags would set it.
AltSymbols ==
    [ Prefix    |-> <<"<", "<">>,
      Suffix    |-> <<">">>,
      Sep       |-> <<":">>,
      Local     |-> <<"l", "o", "c">>,
      Modified  |-> <<"m">>,
      Staged    |-> <<"s">>,
      Conflict  |-> <<"c">>,
      Untracked |-> <<"u">>,
      Stashed   |-> <<"t">>,
      Ahead     |-> <<"a">>,
      Behind    |-> <<"b">>,
      Clean     |-> <<"=">> ]

\* The summaries parseStatus can hand to buildOutput.
RenderStatuses ==
    { [ Commit |-> b[1], Branch |-> b[2], Upstream |-> up,
        Ahead |-> ah, Behind |-> be, Staged |-> sg, Conflict |-> co,
        Modified |-> mo, Untracked |-> un, Stashed |-> sh ] :
        b \in { <<Oid9, BrMain>>, <<Oid9, Detached>>, <<Oid3, Detached>> },
        up \in { <<>>, UpMain },
        ah \in { 0, 2, MaxCount }, be \in { 0 - 1, 0, 1 },
        sg \in { 0, MaxCount }, co \in { 0, 1 }, mo \in { 0, 3 },
        un \in { 0, 1, MaxCount }, sh \in { 0 - 1, 0, 2 } }

\* The states gitState can return.
RenderStates ==
    { [Step |-> 0, Total |-> 0, State |-> l] :
        l \in { <<>>, Merging, CherryPick, Reverting, Bisecting, RebaseMerge } }
    \cup { [Step |-> 2, Total |-> 5, State |-> l] :
             l \in { RebaseInteractive, RebaseApply, Am } }
    \cup { [Step |-> 3, Total |-> MaxCount, State |-> AmRebase] }

NoOperation == [Step |-> 0, Total |-> 0, State |-> <<>>]

(***************************************************************************)
(* Specifications.                                                         *)
(***************************************************************************)
\* A whole run of main.
Init ==
    /\ toplevel \in TopLevelOutcomes
    /\ chdirOk \in BOOLEAN
    /\ fs \in SampleFS
    /\ statusOk \in BOOLEAN
    /\ output \in SampleReports
    /\ symbols = DefaultSymbols
    /\ pc = "gitState"
    /\ state = <<>>
    /\ status = ZeroStatus
    /\ i = 1
    /\ stdout = <<>>
    /\ exitCode = 0
    /\ trace = <<>>

Next ==
    \/ TopLevelQuery
    \/ Chdir
    \/ ClassifyMarkers
    \/ GitStatus
    \/ ParseRecord
    \/ ParseReturn
    \/ PrintOutput

Spec == Init /\ [][Next]_vars

\* gitState alone, over every file system.
InitProbe ==
    /\ toplevel = TopLevelOk
    /\ chdirOk = TRUE
    /\ fs \in AllFS
    /\ statusOk = TRUE
    /\ output = <<>>
    /\ symbols = DefaultSymbols
    /\ pc = "gitState"
    /\ state = <<>>
    /\ status = ZeroStatus
    /\ i = 1
    /\ stdout = <<>>
    /\ exitCode = 0
    /\ trace = <<>>

NextProbe ==
    \/ TopLevelQuery
    \/ Chdir
    \/ ClassifyMarkers

SpecProbe == InitProbe /\ [][NextProbe]_vars

\* parseStatus alone, over every report of the catalog's lines.
InitParse ==
    /\ toplevel = TopLevelOk
    /\ chdirOk = TRUE
    /\ fs = NoOperationFS
    /\ statusOk = TRUE
    /\ output \in AllReports
    /\ symbols = DefaultSymbols
    /\ pc = "parseStatus"
    /\ state = <<NoOperation>>
    /\ status = ZeroStatus
    /\ i = 1
    /\ stdout = <<>>
    /\ exitCode = 0
    /\ trace = <<>>

NextParse ==
    \/ ParseRecord
    \/ ParseReturn

SpecParse == InitParse /\ [][NextParse]_vars

\* buildOutput and the print alone, over summaries, states and symbol tables.
InitRender ==
    /\ toplevel = TopLevelOk
    /\ chdirOk = TRUE
    /\ fs = NoOperationFS
    /\ statusOk = TRUE
    /\ output = <<>>
    /\ symbols \in { DefaultSymbols, AltSymbols }
    /\ pc = "buildOutput"
    /\ state \in { <<s>> : s \in RenderStates }
    /\ status \in RenderStatuses
    /\ i = 1
    /\ stdout = <<>>
    /\ exitCode = 0
    /\ trace = <<>>

NextRender == PrintOutput

SpecRender == InitRender /\ [][NextRender]_vars

(***************************************************************************)
(* Vocabulary of the properties.                                           *)
(***************************************************************************)
StartsWith(s, head) == Len(head) <= Len(s) /\ SubSeq(s, 1, Len(head)) = head

EndsWith(s, tail) ==
    Len(tail) <= Len(s) /\ SubSeq(s, Len(s) - Len(tail) + 1, Len(s)) = tail

\* The run is over, it succeeded, and it was inside a repository.
Succeeded == pc = "done" /\ exitCode = 0 /\ state # <<>>

\* The top-level query answered "not a repository".
NotInRepository == toplevel.exited /\ toplevel.code = 128

\* The top-level query failed in any other way.
TopLevelFailed == ~NotInRepository /\ ~(toplevel.exited /\ toplevel.code = 0)

\* An optional sign, then decimal digits, and at least one of them.
IsInteger(s) ==
    \E k \in {0, 1} :
        /\ Len(s) > k
        /\ k = 1 => s[1] \in {"+", "-"}
        /\ \A j \in (k + 1)..Len(s) :
               s[j] \in {"0", "1", "2", "3", "4", "5", "6", "7", "8", "9"}

\* A step or total file that is missing or does not hold an integer.
BadMarkerFile(path) == ~fs[path].exists \/ ~IsInteger(TrimSpace(fs[path].data))

\* The marker directory that is present promises two integer files; one is bad.
MarkerFileFails ==
    IF fs[RebaseMergeDir].exists
    THEN BadMarkerFile(RebaseMergeMsgnum) \/ BadMarkerFile(RebaseMergeEnd)
    ELSE /\ fs[RebaseApplyDir].exists
         /\ BadMarkerFile(RebaseApplyNext) \/ BadMarkerFile(RebaseApplyLast)

\* A record with an integer field that is no integer, or without a field
\* that section 4.3 reads from a record of its kind.
RecordFails(line) ==
    LET f == Split(line, " ")
    IN  \/ /\ f[1] = <<"#">>
           /\ \/ Len(f) < 2
              \/ f[2] \in {KeyOid, KeyHead, KeyUpstream, KeyStash} /\ Len(f) < 3
              \/ f[2] = KeyStash /\ ~IsInteger(f[3])
              \/ f[2] = KeyAb
                 /\ \/ Len(f) < 4
                    \/ f[3] = <<>> \/ f[4] = <<>>
                    \/ ~IsInteger(Tail(f[3])) \/ ~IsInteger(Tail(f[4]))
        \/ f[1] \in {<<"1">>, <<"2">>} /\ Len(f) < 2

ReportFails ==
    LET recs == Split(output, "\n")
    IN  \E k \in 1..Len(recs) : RecordFails(recs[k])

\* Some step of the run fails, the "not a repository" answer apart.
SomeStepFails ==
    \/ TopLevelFailed
    \/ /\ ~NotInRepository
       /\ ~chdirOk \/ MarkerFileFails \/ ~statusOk \/ ReportFails

(***************************************************************************)
(* C1                                                                      *)
(***************************************************************************)
\* C1: when the top-level query fails with exit status 128, gitState returns
\* nil and the run ends with exit code 0 having printed nothing and having
\* done nothing but that one query (no chdir, no marker check, no status
\* query, no parse, no render); any other failure of the query is fatal.
C1_NotARepositoryEndsSilently ==
    /\ (NotInRepository /\ trace # <<>>) =>
           /\ pc = "done"
           /\ exitCode = 0
           /\ state = <<>>
           /\ stdout = <<>>
           /\ trace = << <<"git", "rev-parse">> >>
           /\ status = ZeroStatus /\ i = 1
    /\ (TopLevelFailed /\ trace # <<>>) =>
           /\ pc = "done"
           /\ exitCode # 0
           /\ stdout = <<>>
           /\ trace = << <<"git", "rev-parse">> >>

C1_Witness == NotInRepository /\ pc = "done" /\ trace # <<>>

(***************************************************************************)
(* C2                                                                      *)
(***************************************************************************)
\* C2: on every successful run inside a repository, standard output holds
\* exactly the string buildOutput returns followed by one newline.
C2_OutputIsOneLine ==
    Succeeded => stdout = buildOutput(status, state[1], symbols) \o <<"\n">>

(***************************************************************************)
(* C3                                                                      *)
(***************************************************************************)
\* C3: if any step fails (the "not a repository" answer apart) the run ends
\* with a non-zero exit code and nothing on standard output; and whenever
\* standard output holds anything, the run is over, with exit code 0, and no
\* step has failed.
C3_FailureIsFatalAndSilent ==
    /\ (pc = "done" /\ SomeStepFails) => (exitCode # 0 /\ stdout = <<>>)
    /\ stdout # <<>> => (pc = "done" /\ exitCode = 0 /\ ~SomeStepFails)

C3_Witness ==
    /\ pc = "done"
    /\ exitCode # 0
    /\ ~TopLevelFailed /\ chdirOk /\ ~MarkerFileFails /\ statusOk /\ ReportFails
    /\ i > 1

(***************************************************************************)
(* C4                                                                      *)
(***************************************************************************)
\* C4: for a summary whose branch is "(detached)", the string printed starts
\* with the prefix symbol, ":", the first 7 characters of the commit id and,
\* right after them, the separator symbol, whatever upstream, ahead and
\* behind hold.
C4_DetachedShowsShortCommit ==
    (Succeeded /\ status.Branch = Detached) =>
        /\ Len(status.Commit) >= 7
        /\ StartsWith(stdout,
                      symbols.Prefix \o <<":">> \o SubSeq(status.Commit, 1, 7)
                      \o symbols.Sep)

C4_Witness ==
    /\ Succeeded
    /\ status.Branch = Detached
    /\ status.Upstream # <<>>
    /\ status.Ahead > 0
    /\ Len(status.Commit) > 7

(***************************************************************************)
(* C5                                                                      *)
(***************************************************************************)
\* The five categories in the order of the specification: symbol and count.
Categories ==
    << [sym |-> symbols.Staged,    n |-> status.Staged],
       [sym |-> symbols.Conflict,  n |-> status.Conflict],
       [sym |-> symbols.Modified,  n |-> status.Modified],
       [sym |-> symbols.Untracked, n |-> status.Untracked],
       [sym |-> symbols.Stashed,   n |-> status.Stashed] >>

RECURSIVE GroupsFrom(_)
\* <symbol><decimal count> of every category from the k-th on whose count is
\* above 0, nothing between two groups.
GroupsFrom(k) ==
    IF k > Len(Categories) THEN <<>>
    ELSE (IF Categories[k].n > 0
          THEN Categories[k].sym \o FormatInt(Categories[k].n)
          ELSE <<>>)
         \o GroupsFrom(k + 1)

\* Where the last separator symbol of s starts (0: there is none).
LastSeparator(s) ==
    LET at == { k \in 1..Len(s) : StartsWith(SubSeq(s, k, Len(s)), symbols.Sep) }
    IN  IF at = {} THEN 0 ELSE CHOOSE k \in at : \A h \in at : h <= k

\* What s holds between its last separator symbol and the suffix symbol.
CategoryPart(s) ==
    SubSeq(s, LastSeparator(s) + Len(symbols.Sep), Len(s) - Len(symbols.Suffix))

\* The length of the run of decimal digits s starts with.
DigitRun(s) ==
    LET ends == { k \in 0..Len(s) : \A j \in 1..k : s[j] \in DigitChars }
    IN  CHOOSE k \in ends : \A h \in ends : h <= k

RECURSIVE ReadGroups(_, _)
\* The counts read back from s, category k onwards: a category whose symbol
\* s starts with has the number that follows it, any other has 0.
ReadGroups(s, k) ==
    IF k > Len(Categories) THEN <<>>
    ELSE LET sym  == Categories[k].sym
             rest == SubSeq(s, Len(sym) + 1, Len(s))
             d    == DigitRun(rest)
         IN  IF StartsWith(s, sym) /\ d > 0
             THEN <<DigitsVal(SubSeq(rest, 1, d))>>
                  \o ReadGroups(SubSeq(rest, d + 1, Len(rest)), k + 1)
             ELSE <<0>> \o ReadGroups(s, k + 1)

AllZero == \A k \in 1..Len(Categories) : Categories[k].n = 0

AllNonNegative == \A k \in 1..Len(Categories) : Categories[k].n >= 0

\* C5: for non-negative counts, what is printed between the last separator
\* and the suffix is the groups <symbol><count> of the counts above 0 in the
\* order staged, conflict, modified, untracked, stashed; it is the clean
\* symbol exactly when the five counts are 0; and reading the groups back
\* gives the five counts.
C5_CategorySection ==
    (Succeeded /\ AllNonNegative) =>
        /\ EndsWith(stdout, symbols.Suffix)
        /\ LastSeparator(stdout) > 0
        /\ AllZero => CategoryPart(stdout) = symbols.Clean
        /\ ~AllZero => CategoryPart(stdout) = GroupsFrom(1)
        /\ (CategoryPart(stdout) = symbols.Clean) <=> AllZero
        /\ ReadGroups(CategoryPart(stdout), 1)
               = [k \in 1..Len(Categories) |-> Categories[k].n]

C5_Witness ==
    /\ Succeeded
    /\ status.Staged = MaxCount /\ status.Conflict = 1 /\ status.Modified > 0
    /\ status.Untracked = MaxCount /\ status.Stashed > 0
    /\ state[1].State # <<>>

(***************************************************************************)
(* C6                                                                      *)
(***************************************************************************)
\* The fields of the record parseStatus is about to read.
NextFields == Split(Split(output, "\n")[i], " ")

\* The next record is a changed entry (first field 1 or 2) with its code.
AtChangedEntry ==
    /\ pc = "parseStatus"
    /\ i <= Len(Split(output, "\n"))
    /\ NextFields[1] \in {<<"1">>, <<"2">>}
    /\ Len(NextFields) >= 2
    /\ Len(NextFields[2]) = 2

\* The counter the specification gives a status code to.
CounterOf(code) ==
    IF code \in { <<"D", "D">>, <<"A", "U">>, <<"U", "D">>, <<"U", "A">>,
                  <<"D", "U">>, <<"A", "A">>, <<"U", "U">> }
    THEN "Conflict"
    ELSE IF code[2] = "M" THEN "Modified"
    ELSE "Staged"

\* The records of the report whose first field is 1 or 2.
ChangedEntries ==
    LET recs == Split(output, "\n")
    IN  { k \in 1..Len(recs) : Split(recs[k], " ")[1] \in {<<"1">>, <<"2">>} }

\* C6: a record whose first field is 1 or 2 adds exactly 1 to exactly one of
\* conflict, modified and staged - conflict for a conflict code, else
\* modified for a code whose second character is M, else staged - and
\* changes nothing else of the summary; after a whole report, conflict +
\* modified + staged is the number of such records.
C6_ChangedEntryCountsOnce ==
    [][/\ AtChangedEntry =>
            /\ status' = [status EXCEPT ![CounterOf(NextFields[2])] = @ + 1]
            /\ i' = i + 1
            /\ pc' = "parseStatus"
       /\ pc' = "buildOutput" =>
            status'.Conflict + status'.Modified + status'.Staged
                = Cardinality(ChangedEntries)]_vars

C6_Witness ==
    /\ pc = "buildOutput"
    /\ status.Conflict = 1 /\ status.Modified = 1 /\ status.Staged = 1

(***************************************************************************)
(* C7                                                                      *)
(***************************************************************************)
\* The ahead/behind part as the specification words it.
AheadBehindPart ==
    IF status.Ahead = 0 /\ status.Behind = 0 THEN <<>>
    ELSE <<" ">>
         \o (IF status.Ahead > 0
             THEN symbols.Ahead \o FormatInt(status.Ahead) ELSE <<>>)
         \o (IF status.Behind > 0
             THEN symbols.Behind \o FormatInt(status.Behind) ELSE <<>>)

UpstreamPart ==
    IF status.Upstream = <<>> THEN <<" ">> \o symbols.Local
    ELSE <<" ", "{">> \o status.Upstream \o <<"}">>

\* [main {origin/main} <up>2<down>1|<modified>1<untracked>1]
ExampleOutput ==
    <<"[">> \o BrMain \o <<" ", "{">> \o UpMain \o <<"}", " ">>
    \o <<"U+2191", "U+00B7", "2", "U+2193", "U+00B7", "1", "|">>
    \o <<"U+271A", " ", "1", "U+2026", "1", "]">>

\* C7: for a summary that is not detached, after the upstream or local part
\* comes nothing when ahead = 0 and behind = 0, and otherwise one space, the
\* ahead group if ahead > 0 and the behind group if behind > 0, then the
\* separator; and the example report of section 8 prints the example line.
C7_AheadBehind ==
    /\ (Succeeded /\ status.Branch # Detached) =>
           StartsWith(stdout,
                      symbols.Prefix \o status.Branch \o UpstreamPart
                      \o AheadBehindPart \o symbols.Sep)
    /\ (Succeeded /\ output = ExampleReport /\ state[1].State = <<>>
        /\ symbols = DefaultSymbols) =>
           stdout = ExampleOutput

(***************************************************************************)
(* C8                                                                      *)
(***************************************************************************)
\* The markers in the order of their priority.
Priority ==
    << RebaseMergeDir, RebaseApplyDir, MergeHead, CherryPickHead, RevertHead,
       BisectLog >>

\* The place in Priority of the first marker present (7: none is).
Winner ==
    LET here == { k \in 1..Len(Priority) : fs[Priority[k]].exists }
    IN  IF here = {} THEN Len(Priority) + 1
        ELSE CHOOSE k \in here : \A h \in here : k <= h

\* The label the specification gives the winning marker.
WinnerLabel ==
    CASE Winner = 1 ->
           IF fs[RebaseMergeInteractive].exists THEN RebaseInteractive
           ELSE RebaseMerge
      [] Winner = 2 ->
           IF fs[RebaseApplyRebasing].exists THEN RebaseApply
           ELSE IF fs[RebaseApplyApplying].exists THEN Am
           ELSE AmRebase
      [] Winner = 3 -> Merging
      [] Winner = 4 -> CherryPick
      [] Winner = 5 -> Reverting
      [] Winner = 6 -> Bisecting
      [] OTHER -> <<>>

\* The step and total files of the winning marker.
WinnerFiles ==
    CASE Winner = 1 -> {RebaseMergeMsgnum, RebaseMergeEnd}
      [] Winner = 2 -> {RebaseApplyNext, RebaseApplyLast}
      [] OTHER -> {}

\* The paths the probe may look at: the markers down to the winner, and what
\* lies in the winner's directory.
WinnerPaths ==
    { Priority[k] : k \in { h \in 1..Len(Priority) : h <= Winner } }
    \cup WinnerFiles
    \cup (CASE Winner = 1 -> {RebaseMergeInteractive}
            [] Winner = 2 -> {RebaseApplyRebasing, RebaseApplyApplying}
            [] OTHER -> {})

\* C8: gitState gives the label of the first marker present in the order
\* rebase-merge, rebase-apply, MERGE_HEAD, CHERRY_PICK_HEAD, REVERT_HEAD,
\* BISECT_LOG (the sub-markers choosing among the rebase labels), whatever
\* markers of lower priority are present; it reads step and total files of
\* the winner's directory only, and looks at no marker below the winner.
C8_FirstMarkerWins ==
    /\ pc = "gitStatus" =>
           /\ state # <<>>
           /\ state[1].State = WinnerLabel
    /\ \A k \in 1..Len(trace) :
           /\ trace[k][1] = "read" => trace[k][2] \in WinnerFiles
           /\ trace[k][1] = "stat" => trace[k][2] \in WinnerPaths

C8_Witness ==
    /\ pc = "gitStatus"
    /\ state[1].State = Am
    /\ fs[RebaseApplyApplying].exists
    /\ fs[MergeHead].exists /\ fs[BisectLog].exists

(***************************************************************************)
(* C9                                                                      *)
(***************************************************************************)
\* The operation section as the specification words it.
OperationPart ==
    IF state[1].State = <<>> THEN <<>>
    ELSE state[1].State
         \o (IF state[1].Total > 0
             THEN <<" ">> \o FormatInt(state[1].Step) \o <<"/">>
                  \o FormatInt(state[1].Total)
             ELSE <<>>)
         \o symbols.Sep

\* C9: between the branch section and the category section the output has
\* one separator and nothing else when no operation is in progress, and
\* otherwise separator, label, " <step>/<total>" exactly when total > 0, and
\* the separator again; and a state gitState returns with the label MERGING,
\* CHERRY-PICKING, REVERTING, BISECTING or none has step = total = 0.
C9_OperationSection ==
    /\ Succeeded =>
           stdout = symbols.Prefix \o branchSection(status, symbols)
                    \o symbols.Sep \o OperationPart
                    \o categorySection(status, symbols) \o symbols.Suffix
    /\ (state # <<>>
        /\ state[1].State \in {Merging, CherryPick, Reverting, Bisecting, <<>>}) =>
           (state[1].Step = 0 /\ state[1].Total = 0)

C9_Witness ==
    /\ Succeeded
    /\ state[1].State = RebaseMerge
    /\ state[1].Total = 0
    /\ state[1].Step > 0

(***************************************************************************)
(* C10                                                                     *)
(***************************************************************************)
\* C10: while parseStatus runs and when it has returned without error, the
\* ahead, behind, staged, conflict, modified, untracked and stashed counts
\* of the summary are not negative.
C10_CountsNotNegative ==
    pc \in {"parseStatus", "buildOutput"} =>
        /\ status.Ahead >= 0 /\ status.Behind >= 0
        /\ status.Staged >= 0 /\ status.Conflict >= 0 /\ status.Modified >= 0
        /\ status.Untracked >= 0 /\ status.Stashed >= 0

====
